---- MODULE Spec2Model ----
(***************************************************************************)
(* Model of the registry commands of example_mlops/model_management.py:    *)
(* stage_best_model_to_registry, link_latest_model, print_latest_model and *)
(* link_model, run one after another against one artifact collection of    *)
(* the external artifact store.                                            *)
(*                                                                         *)
(* Metric values are Python floats.  They are modelled by integers in      *)
(* NegInf..PosInf, where NegInf stands for float("-inf"), PosInf for       *)
(* float("inf") and 0..MaxVal for finite values, so that the integer order *)
(* is the order of the floats (NaN is not modelled).                       *)
(*                                                                         *)
(* Strings that the code parses are sequences of tokens; the tokens "/"    *)
(* and ":" are the delimiters, every other token is a delimiter-free piece *)
(* of text.  The empty sequence is the empty string.                       *)
(***************************************************************************)
EXTENDS Integers, Sequences, FiniteSets, TLC

VARIABLES
    collection,   \* the artifacts of the collection, in collection order
    invocation,   \* the command that ran last, with its arguments
    rerun,        \* history: the last command repeated the one before it
    log_errors,   \* number of logger.error calls of the last command
    log_infos,    \* number of logger.info calls of the last command
    raised,       \* the exception the last command ended with, or "none"
    printed,      \* what the last command printed
    calls,        \* the store calls of the last command, in order
    scan          \* the selector's running best after each loop iteration

vars == <<collection, invocation, rerun, log_errors, log_infos, raised, printed,
          calls, scan>>

\* ------------------------------------------------------------- bounds
MaxArtifacts == 2
MaxVal == 0

\* ------------------------------------------------------------- values
NegInf == -1
PosInf == MaxVal + 1
Values == NegInf..PosInf

None == 0

ModelName == "modelZ"
MetricNames == {"accuracy", "loss"}
MetadataKeys == {"accuracy"}
\* The --aliases option of link_latest_model: "-a staging -a best" or
\* "-a latest".
AliasChoices == {{"staging", "best"}, {"latest"}}

\* The --aliases option of link_model: "-a staging -a best", the example of
\* its docstring.
LinkModelAliases == {{"staging", "best"}}
VersionNames == <<"v0", "v1", "v2", "v3">>

\* The name of the i-th artifact of the collection, "modelZ:v<i-1>".
ArtifactName(i) == <<ModelName, ":", VersionNames[i]>>

\* The reference "entityX/projectY/modelZ:v<i-1>" of the i-th artifact.
ArtifactPath(i) == <<"entityX", "/", "projectY", "/">> \o ArtifactName(i)

Metadata == UNION {[S -> Values] : S \in SUBSET MetadataKeys}

\* The artifacts a training run leaves in the store: the newest versions may
\* carry "latest"; "staging" and "best" are attached by the commands below.
InitialAliases == SUBSET {"latest"}

Collections ==
    UNION {{[i \in 1..n |-> [name |-> ArtifactName(i),
                             metadata |-> md[i],
                             aliases |-> al[i]]] :
               md \in [1..n -> Metadata], al \in [1..n -> InitialAliases]} :
           n \in 0..MaxArtifacts}

ArtifactPaths ==
    {<<>>,
     <<"bad-path">>,
     <<"entityX", "/", "projectY", "/", ModelName>>,
     <<"entityX", "/", "projectY", "/", "other", ":", "v0">>}
    \cup {ArtifactPath(i) : i \in 1..MaxArtifacts}

\* ------------------------------------------------------------- the store
\* Artifact.link(target_path, aliases): the aliases are attached to the
\* artifact's alias set (union); metadata and name are not touched.
ArtifactLink(artifact, aliases) ==
    [artifact EXCEPT !.aliases = @ \cup aliases]

\* api.artifact(path): the index of the artifact the path names, None when
\* the store has no such artifact (the store client then raises).
ApiArtifact(coll, path) ==
    IF \E i \in 1..Len(coll) : path = ArtifactPath(i)
    THEN CHOOSE i \in 1..Len(coll) : path = ArtifactPath(i)
    ELSE None

\* The collection after the artifacts of `targets` were linked with `aliases`.
LinkAll(coll, targets, aliases) ==
    [i \in 1..Len(coll) |->
        IF \E k \in 1..Len(targets) : targets[k] = i
        THEN ArtifactLink(coll[i], aliases)
        ELSE coll[i]]

\* ------------------------------------------------------------- selector
best_metric_init(higher_is_better) ==
    IF higher_is_better THEN NegInf ELSE PosInf

compare_op(higher_is_better, a, b) ==
    IF higher_is_better THEN a > b ELSE a < b

\* line 54: the artifact carries the metric and beats the running best.
qualifies(artifact, metric_name, higher_is_better, best_metric) ==
    /\ metric_name \in DOMAIN artifact.metadata
    /\ compare_op(higher_is_better, artifact.metadata[metric_name], best_metric)

\* The running (best_metric, best_artifact) after each iteration of the loop
\* over the first n artifacts; entry k is the state after artifact k.
RECURSIVE ScanTrace(_, _, _, _)
ScanTrace(coll, n, metric_name, higher_is_better) ==
    IF n = 0 THEN <<>>
    ELSE LET before == ScanTrace(coll, n - 1, metric_name, higher_is_better)
             prev == IF n = 1
                     THEN [best_metric |-> best_metric_init(higher_is_better),
                           best_artifact |-> None]
                     ELSE before[n - 1]
         IN  IF qualifies(coll[n], metric_name, higher_is_better, prev.best_metric)
             THEN Append(before, [best_metric |-> coll[n].metadata[metric_name],
                                  best_artifact |-> n])
             ELSE Append(before, prev)

\* The selector without its "not found" guard.
not_found_unguarded(best_artifact) == FALSE

\* `if best_artifact is None`
not_found(best_artifact) == best_artifact = None

BestArtifact(trace) ==
    IF trace = <<>> THEN None ELSE trace[Len(trace)].best_artifact

\* ------------------------------------------------------------- locator
\* The test of the loops with its sense inverted.
has_latest_inverted(artifact) == "latest" \notin artifact.aliases

\* `"latest" in artifact.aliases`
has_latest(artifact) == "latest" \in artifact.aliases

\* The indices of the artifacts carrying "latest", in collection order.
RECURSIVE LatestFrom(_, _)
LatestFrom(coll, i) ==
    IF i > Len(coll) THEN <<>>
    ELSE (IF has_latest(coll[i]) THEN <<i>> ELSE <<>>) \o LatestFrom(coll, i + 1)

\* The loop of link_latest_model without its `return`.
link_latest_targets_all(coll) == LatestFrom(coll, 1)

\* The artifacts link_latest_model links: the loop returns after the first.
link_latest_targets(coll) ==
    IF LatestFrom(coll, 1) = <<>> THEN <<>> ELSE <<Head(LatestFrom(coll, 1))>>

\* The artifacts whose name print_latest_model prints: the loop has no return.
print_latest_targets(coll) == LatestFrom(coll, 1)

\* ------------------------------------------------------------- parser
\* str.split(sep) on a token sequence: the segments between the delimiters.
RECURSIVE Split(_, _)
Split(s, sep) ==
    IF s = <<>> THEN << <<>> >>
    ELSE LET rest == Split(Tail(s), sep)
         IN  IF Head(s) = sep
             THEN << <<>> >> \o rest
             ELSE << <<Head(s)>> \o Head(rest) >> \o Tail(rest)

NoInvocation ==
    [cmd |-> "none", metric_name |-> "", higher_is_better |-> TRUE,
     aliases |-> {}, artifact_path |-> <<>>]

\* ------------------------------------------------------------- Init
Init ==
    /\ collection \in Collections
    /\ invocation = NoInvocation
    /\ rerun = FALSE
    /\ log_errors = 0
    /\ log_infos = 0
    /\ raised = "none"
    /\ printed = <<>>
    /\ calls = <<>>
    /\ scan = <<>>

\* ------------------------------------------------------------- commands
Invoke(inv) ==
    /\ invocation' = inv
    /\ rerun' = (inv = invocation)

\* api.artifact(path), artifact.link(target_path, aliases) and artifact.save()
\* as entries of `calls`.
FetchCall(artifact) ==
    [op |-> "artifact", artifact |-> artifact, target |-> <<>>, aliases |-> {}]

LinkCall(artifact, target, aliases) ==
    [op |-> "link", artifact |-> artifact, target |-> target, aliases |-> aliases]

SaveCall(artifact) ==
    [op |-> "save", artifact |-> artifact, target |-> <<>>, aliases |-> {}]

\* link and save of each target in turn.
RECURSIVE Promote(_, _, _)
Promote(targets, target, aliases) ==
    IF targets = <<>> THEN <<>>
    ELSE <<LinkCall(Head(targets), target, aliases), SaveCall(Head(targets))>>
         \o Promote(Tail(targets), target, aliases)

stage_best_model_to_registry(metric_name, higher_is_better) ==
    LET trace == ScanTrace(collection, Len(collection), metric_name, higher_is_better)
        best_artifact == BestArtifact(trace)
        aliases == {"best", "staging"}
    IN  /\ Invoke([NoInvocation EXCEPT !.cmd = "stage_best_model_to_registry",
                                       !.metric_name = metric_name,
                                       !.higher_is_better = higher_is_better,
                                       !.aliases = aliases])
        /\ scan' = trace
        /\ raised' = "none"
        /\ printed' = <<>>
        /\ IF not_found(best_artifact)
           THEN /\ log_errors' = 1
                /\ log_infos' = 0
                /\ calls' = <<>>
                /\ UNCHANGED collection
           ELSE /\ log_errors' = 0
                /\ log_infos' = 2
                /\ calls' = Promote(<<best_artifact>>, <<ModelName>>, aliases)
                /\ collection' = LinkAll(collection, <<best_artifact>>, aliases)

link_latest_model(aliases) ==
    LET targets == link_latest_targets(collection)
    IN  /\ Invoke([NoInvocation EXCEPT !.cmd = "link_latest_model",
                                       !.aliases = aliases])
        /\ scan' = <<>>
        /\ raised' = "none"
        /\ printed' = <<>>
        /\ log_errors' = 0
        /\ log_infos' = Len(targets)
        /\ calls' = Promote(targets, <<ModelName>>, aliases)
        /\ collection' = LinkAll(collection, targets, aliases)

print_latest_model ==
    LET targets == print_latest_targets(collection)
    IN  /\ Invoke([NoInvocation EXCEPT !.cmd = "print_latest_model"])
        /\ scan' = <<>>
        /\ raised' = "none"
        /\ printed' = [k \in 1..Len(targets) |-> collection[targets[k]].name]
        /\ log_errors' = 0
        /\ log_infos' = 0
        /\ calls' = <<>>
        /\ UNCHANGED collection

link_model(artifact_path, aliases) ==
    LET segments == Split(artifact_path, "/")
        name_version == Split(segments[3], ":")
        artifact_name == name_version[1]
        artifact == ApiArtifact(collection, artifact_path)
    IN  /\ Invoke([NoInvocation EXCEPT !.cmd = "link_model",
                                       !.aliases = aliases,
                                       !.artifact_path = artifact_path])
        /\ scan' = <<>>
        /\ printed' = <<>>
        /\ IF artifact_path = <<>>
           THEN \* line 118: the empty path is reported and the command returns
                /\ log_errors' = 1
                /\ log_infos' = 0
                /\ raised' = "none"
                /\ calls' = <<>>
                /\ UNCHANGED collection
           ELSE IF Len(segments) # 3 \/ Len(name_version) # 2
           THEN \* lines 126-127: the tuple unpacking raises ValueError
                /\ log_errors' = 0
                /\ log_infos' = 0
                /\ raised' = "ValueError"
                /\ calls' = <<>>
                /\ UNCHANGED collection
           ELSE IF artifact = None
           THEN \* line 129: the store has no such artifact and raises
                /\ log_errors' = 0
                /\ log_infos' = 0
                /\ raised' = "StoreFailure"
                /\ calls' = <<FetchCall(None)>>
                /\ UNCHANGED collection
           ELSE \* line 133 calls logger.info() without a message: whether the
                \* logger (example_mlops.utils) accepts that is not known here
                /\ log_errors' = 0
                /\ raised' \in {"none", "TypeError"}
                /\ log_infos' = (IF raised' = "none" THEN 2 ELSE 1)
                /\ calls' = <<FetchCall(artifact)>>
                            \o Promote(<<artifact>>, artifact_name, aliases)
                /\ collection' = LinkAll(collection, <<artifact>>, aliases)

Next ==
    \/ \E m \in MetricNames, h \in BOOLEAN : stage_best_model_to_registry(m, h)
    \/ \E a \in AliasChoices : link_latest_model(a)
    \/ print_latest_model
    \/ \E p \in ArtifactPaths, a \in LinkModelAliases : link_model(p, a)

Spec == Init /\ [][Next]_vars

\* ------------------------------------------------------------- properties
\* What the properties below say about the last command, read off the state.
\* The metadata of `collection` is what the last command saw: no command
\* writes it (FrameAndGrowth).
Staged == invocation.cmd = "stage_best_model_to_registry"
LinkedLatest == invocation.cmd = "link_latest_model"
PrintedLatest == invocation.cmd = "print_latest_model"
LinkedModel == invocation.cmd = "link_model"

Indices(coll) == 1..Len(coll)
Min(S) == CHOOSE x \in S : \A y \in S : x <= y

CarryingIn(coll, metric_name) ==
    {i \in Indices(coll) : metric_name \in DOMAIN coll[i].metadata}
Carrying == CarryingIn(collection, invocation.metric_name)
MetricOf(i) == collection[i].metadata[invocation.metric_name]
AtLeastAsGood(a, b) == IF invocation.higher_is_better THEN a >= b ELSE a <= b
BestCarrying == {i \in Carrying : \A j \in Carrying : AtLeastAsGood(MetricOf(i), MetricOf(j))}

LatestIn(coll) == {i \in Indices(coll) : "latest" \in coll[i].aliases}

CallsOf(cs, op) == {k \in DOMAIN cs : cs[k].op = op}
LinkTargets(cs) == {cs[k].artifact : k \in CallsOf(cs, "link")}

\* link then save of artifact i, and no other store call.
PromotesOnly(cs, i) ==
    /\ Len(cs) = 2
    /\ cs[1].op = "link" /\ cs[1].artifact = i
    /\ cs[2].op = "save" /\ cs[2].artifact = i

\* C1: when at least one artifact carries metric_name, the staging command
\* links an artifact that carries it and whose value is at least as good as
\* every other carrying artifact's; artifacts without the metric are never
\* linked.
SelectsBest ==
    Staged =>
        /\ LinkTargets(calls) \subseteq Carrying
        /\ Carrying # {} =>
              \E i \in BestCarrying : PromotesOnly(calls, i)

\* C2: when several artifacts carry the same best value, the staging
\* command links the earliest of them in collection order.
FirstWinsTie ==
    (Staged /\ Cardinality(BestCarrying) >= 2) =>
        PromotesOnly(calls, Min(BestCarrying))

\* C3: when no artifact carries metric_name (the empty collection included),
\* the staging command logs an error, returns without raising, makes no
\* store call, and leaves every alias set as it was.
NotFoundAborts ==
    [][(invocation'.cmd = "stage_best_model_to_registry"
          /\ CarryingIn(collection, invocation'.metric_name) = {})
       => /\ log_errors' = 1
          /\ raised' = "none"
          /\ calls' = <<>>
          /\ Len(collection') = Len(collection)
          /\ \A i \in Indices(collection) :
                collection'[i].aliases = collection[i].aliases]_vars

NotFoundWitness ==
    /\ Staged
    /\ invocation.metric_name = "accuracy"
    /\ Len(collection) = MaxArtifacts
    /\ Carrying = {}
    /\ \E i \in Indices(collection) : collection[i].aliases # {}
    /\ log_errors = 1

\* C4: link_latest_model links and then saves the first artifact carrying
\* "latest" and no other; with no "latest" artifact it links and saves
\* nothing.
LinksFirstLatestOnly ==
    [][invocation'.cmd = "link_latest_model"
       => IF LatestIn(collection) = {}
          THEN calls' = <<>> /\ collection' = collection
          ELSE PromotesOnly(calls', Min(LatestIn(collection)))]_vars

LinksFirstLatestWitness ==
    /\ LinkedLatest
    /\ Cardinality(LatestIn(collection)) >= 2
    /\ PromotesOnly(calls, Min(LatestIn(collection)))
    /\ invocation.aliases \subseteq collection[Min(LatestIn(collection))].aliases
    /\ \E j \in LatestIn(collection) : ~(invocation.aliases \subseteq collection[j].aliases)

\* C5: print_latest_model prints the name of the first artifact carrying
\* "latest" and of no other, and makes no store call.
PrintsFirstLatestOnly ==
    PrintedLatest =>
        /\ calls = <<>>
        /\ LatestIn(collection) # {} =>
              printed = <<collection[Min(LatestIn(collection))].name>>

PreconditionFailed ==
    \/ LinkedModel /\ invocation.artifact_path = <<>>
    \/ Staged /\ Carrying = {}
    \/ LinkedLatest /\ LatestIn(collection) = {}

\* C6: a command whose precondition fails (empty path for link_model, no
\* carrying artifact for the staging command, no "latest" artifact for
\* link_latest_model) logs an error, does not raise, and neither links nor
\* saves.
FailedPreconditionLogged ==
    PreconditionFailed =>
        /\ log_errors >= 1
        /\ raised = "none"
        /\ CallsOf(calls, "link") = {}
        /\ CallsOf(calls, "save") = {}

Count(s, token) == Cardinality({k \in DOMAIN s : s[k] = token})

FinalSegment(s) ==
    IF Count(s, "/") = 0 THEN s
    ELSE LET last == CHOOSE k \in DOMAIN s :
                        s[k] = "/" /\ \A j \in DOMAIN s : s[j] = "/" => j <= k
         IN  SubSeq(s, last + 1, Len(s))

WellFormed(s) == Count(s, "/") = 2 /\ Count(FinalSegment(s), ":") = 1

\* C7: link_model on a non-empty reference without exactly two "/" and
\* exactly one ":" in its final segment logs the failure and returns
\* without raising and without any store call; on a well-formed reference
\* the registry name is the artifact name, "modelZ".
MalformedReferenceHandled ==
    LinkedModel =>
        /\ (invocation.artifact_path # <<>> /\ ~WellFormed(invocation.artifact_path))
              => /\ log_errors >= 1
                 /\ raised = "none"
                 /\ calls = <<>>
        /\ WellFormed(invocation.artifact_path)
              => \A k \in CallsOf(calls, "link") : calls[k].target = <<ModelName>>

Promoting == {"stage_best_model_to_registry", "link_latest_model", "link_model"}

\* C8: running a promoting command a second time in a row with the same
\* arguments changes no artifact's alias set.
PromotionIdempotent ==
    [][(rerun' /\ invocation'.cmd \in Promoting)
       => /\ Len(collection') = Len(collection)
          /\ \A i \in Indices(collection) :
                collection'[i].aliases = collection[i].aliases]_vars

PromotionIdempotentWitness ==
    /\ rerun
    /\ LinkedLatest
    /\ "latest" \in invocation.aliases
    /\ CallsOf(calls, "link") # {}
    /\ \E i \in Indices(collection) : "latest" \notin collection[i].aliases

\* C9: no command changes an artifact's metadata; a promotion adds the given
\* aliases to its one target (union) and removes none; every other artifact
\* is left as it was.
FrameAndGrowth ==
    [][LET targets == LinkTargets(calls')
       IN  /\ Len(collection') = Len(collection)
           /\ Cardinality(targets) <= 1
           /\ \A i \in Indices(collection) :
                 /\ collection'[i].metadata = collection[i].metadata
                 /\ collection'[i].name = collection[i].name
                 /\ collection[i].aliases \subseteq collection'[i].aliases
                 /\ IF i \in targets
                    THEN collection'[i].aliases =
                            collection[i].aliases \cup invocation'.aliases
                    ELSE collection'[i] = collection[i]]_vars

FrameAndGrowthWitness ==
    /\ Len(collection) = MaxArtifacts
    /\ \E i \in LinkTargets(calls) :
          /\ invocation.aliases \subseteq collection[i].aliases
          /\ collection[i].aliases # invocation.aliases
          /\ DOMAIN collection[i].metadata # {}
          /\ \E j \in Indices(collection) :
                j # i /\ collection[j].aliases # {} /\ DOMAIN collection[j].metadata # {}

\* C10: the first artifact in collection order that carries metric_name
\* replaces the initial running best, whatever its value; hence the scan
\* ends with a best artifact whenever some artifact carries the metric.
FirstCarryingReplacesInitial ==
    (Staged /\ Carrying # {}) =>
        /\ scan[Min(Carrying)].best_artifact = Min(Carrying)
        /\ scan[Min(Carrying)].best_metric = MetricOf(Min(Carrying))
        /\ scan[Len(scan)].best_artifact # None

====
